---------------------------- MODULE Spec2Model ----------------------------
(***************************************************************************)
(* SocialQuest: the mock API server of src/App.tsx (AsyncStorage backed)   *)
(* and the Express/Mongoose server of src/unnamed/part_000.                *)
(*                                                                         *)
(* Time is one wall clock `now`, in milliseconds as Date.now() returns it. *)
(* Optional values (a missing AsyncStorage key, an undefined field, an     *)
(* absent header) are sequences of length 0 or 1.                          *)
(***************************************************************************)
EXTENDS Integers, Sequences, FiniteSets, TLC

VARIABLES
  now,          \* Date.now(), milliseconds
  userByName,   \* AsyncStorage keys `user_${username}`
  userById,     \* AsyncStorage keys `user_${user._id}`
  tokenStore,   \* AsyncStorage keys `token_${token}`, token -> user._id
  posts,        \* AsyncStorage key 'posts': None or Some(list of posts)
  mockChallenges, \* AsyncStorage key 'challenges': None or Some(list)
  lastToggle,   \* history: the last like toggle that was answered with 200
  dbUsers,      \* the User collection, one document per (unique) username
  dbChallenges, \* the Challenge collection
  dbPosts,      \* the Post collection, in insertion order
  loginDays,    \* history: per user, the calendar days with a successful login
  prevRefresh,  \* history: per user, the refresh token issued before the latest
  refreshReq,   \* history: the body.refreshToken of the last refresh request
  inflight,     \* the requests being handled step by step: id -> locals
  registeredWith, \* history: per mock user, the password of the registration
  bearer,       \* history: the authorization header of the last request
                \* that went through authenticateToken
  acked,        \* history: what the requests handled step by step were
                \* answered (posts created, likes added, xp owed per user)
  resp          \* the response of the last request handled

mock == <<userByName, userById, tokenStore, posts, mockChallenges, lastToggle>>
db == <<dbUsers, dbChallenges, dbPosts, loginDays, prevRefresh>>
hist == <<registeredWith, bearer, acked>>
aux == <<inflight, hist>>
vars == <<now, userByName, userById, tokenStore, posts, mockChallenges,
          lastToggle, dbUsers, dbChallenges, dbPosts, loginDays, prevRefresh,
          refreshReq, inflight, registeredWith, bearer, acked, resp>>

None == <<>>
Some(x) == <<x>>

-----------------------------------------------------------------------------
(* Bounds *)

MaxMs == 1          \* the like specification observes ms 0..MaxMs
MaxPosts == 1       \* posts in the feed
MaxLevel == 2       \* level-ups stop at this level
MaxXp == 300        \* xp is not raised above this value
MaxLikeXp == 15     \* xp cap of the two-user like specification

TickHours == 6      \* the streak specification reads the clock every 6 h
MaxTicks == 12      \* and for this many readings
MaxSeconds == 1     \* seconds the token specification tells apart
MaxRequests == 2    \* requests handled at the same time
MaxDays == 2        \* days the login specification goes on for
MaxPageSize == 2    \* the largest page and limit a request asks for
MaxFeed == 2        \* posts in the Post collection

Usernames == {"alice", "bob"}
StreakUsers == {"", "alice"}
TokenUsers == {"al", "alice"}
AuthPasswords == {"", "short", "password1", "password2"}
LevelUsers == {"alice"}
MockPasswords == {"", "abc", "secret7"}
Contents == {"", "hi"}
\* req.body.content of 500 and of 501 characters
Content500 ==
  "aaaaaaaaaaaaaaaaaaaaaaaaaaaaaaaaaaaaaaaaaaaaaaaaaaaaaaaaaaaaaaaaaaaaaaaaaaaaaaaaaaaaaaaaaaaaaaaaaaaaaaaaaaaaaaaaaaaaaaaaaaaaaaaaaaaaaaaaaaaaaaaaaaaaaaaaaaaaaaaaaaaaaaaaaaaaaaaaaaaaaaaaaaaaaaaaaaaaaaaaaaaaaaaaaaaaaaaaaaaaaaaaaaaaaaaaaaaaaaaaaaaaaaaaaaaaaaaaaaaaaaaaaaaaaaaaaaaaaaaaaaaaaaaaaaaaaaaaaaaaaaaaaaaaaaaaaaaaaaaaaaaaaaaaaaaaaaaaaaaaaaaaaaaaaaaaaaaaaaaaaaaaaaaaaaaaaaaaaaaaaaaaaaaaaaaaaaaaaaaaaaaaaaaaaaaaaaaaaaaaaaaaaaaaaaaaaaaaaaaaaaaaaaaaaaaaaaaaaaaaaaaaaaaaaaaaaaaaaaaaaaaaaaaaaaaaaaaaaaaa"
Content501 ==
  "aaaaaaaaaaaaaaaaaaaaaaaaaaaaaaaaaaaaaaaaaaaaaaaaaaaaaaaaaaaaaaaaaaaaaaaaaaaaaaaaaaaaaaaaaaaaaaaaaaaaaaaaaaaaaaaaaaaaaaaaaaaaaaaaaaaaaaaaaaaaaaaaaaaaaaaaaaaaaaaaaaaaaaaaaaaaaaaaaaaaaaaaaaaaaaaaaaaaaaaaaaaaaaaaaaaaaaaaaaaaaaaaaaaaaaaaaaaaaaaaaaaaaaaaaaaaaaaaaaaaaaaaaaaaaaaaaaaaaaaaaaaaaaaaaaaaaaaaaaaaaaaaaaaaaaaaaaaaaaaaaaaaaaaaaaaaaaaaaaaaaaaaaaaaaaaaaaaaaaaaaaaaaaaaaaaaaaaaaaaaaaaaaaaaaaaaaaaaaaaaaaaaaaaaaaaaaaaaaaaaaaaaaaaaaaaaaaaaaaaaaaaaaaaaaaaaaaaaaaaaaaaaaaaaaaaaaaaaaaaaaaaaaaaaaaaaaaaaaaaaa"
PostContents == {"", "hi", Content500, Content501}

-----------------------------------------------------------------------------
(* src/App.tsx: the integrated mock server *)

rewardItems == <<"Health Potion", "Mana Potion", "Golden Key", "Magic Scroll">>

NewMockUser(username, t) ==
  [_id |-> t, username |-> username, level |-> 1, xp |-> 0, coins |-> 100,
   streak |-> 0, title |-> "Newbie", inventory |-> <<"Starter Pack">>]

Put(f, k, v) == [x \in DOMAIN f \cup {k} |-> IF x = k THEN v ELSE f[x]]

\* req.headers.authorization?.split(' ')[1], then the token_ lookup:
\* None when the header is absent or the token is unknown.
TokenUser(auth) ==
  IF auth = None THEN None
  ELSE IF auth[1] \in DOMAIN tokenStore THEN Some(tokenStore[auth[1]]) ELSE None

Unauthorized(op) ==
  /\ resp' = [op |-> op, status |-> 401, body |-> None]
  /\ UNCHANGED <<aux, now, mock, db, refreshReq>>

\* JSON.parse(await AsyncStorage.getItem('posts') || []) throws a SyntaxError
\* when the key is absent: [] is converted to the empty string.
Thrown(op) ==
  /\ resp' = [op |-> op, status |-> 500, body |-> None]
  /\ UNCHANGED <<aux, now, mock, db, refreshReq>>

\* The two Date.now() reads of the handler (the _id, the token) fall in one
\* reading of the clock.
Register(username, password) ==
  IF username = "" \/ password = "" \/ Len(password) < 6
     \/ username \in DOMAIN userByName
  THEN /\ resp' = [op |-> "register", status |-> 400, body |-> None]
       /\ UNCHANGED <<aux, now, mock, db, refreshReq>>
  ELSE LET user == NewMockUser(username, now) IN
       /\ userByName' = Put(userByName, username, user)
       /\ userById' = Put(userById, user._id, user)
       /\ tokenStore' = Put(tokenStore, now, user._id)
       /\ resp' = [op |-> "register", status |-> 201,
                   body |-> Some([accessToken |-> now, user |-> user])]
       /\ registeredWith' = Put(registeredWith, username, password)
       /\ UNCHANGED <<inflight, bearer, acked, now, posts, mockChallenges, lastToggle, db, refreshReq>>

Login(username, password) ==
  IF username \notin DOMAIN userByName
  THEN /\ resp' = [op |-> "login", status |-> 400, body |-> None]
       /\ UNCHANGED <<aux, now, mock, db, refreshReq>>
  ELSE LET user == userByName[username] IN
       /\ tokenStore' = Put(tokenStore, now, user._id)
       /\ resp' = [op |-> "login", status |-> 200,
                   body |-> Some([accessToken |-> now, user |-> user])]
       /\ UNCHANGED <<aux, now, userByName, userById, posts, mockChallenges, lastToggle,
                   db, refreshReq>>

\* The post embeds the author's user object; its identity is kept here, the
\* gamification fields of the embedded copy are read by no handler.
NewPost(user, content, t) ==
  [_id |-> t, userId |-> [_id |-> user._id, username |-> user.username],
   content |-> content, likes |-> <<>>, comments |-> <<>>, createdAt |-> t]

CreatePost(auth, content, xpCap) ==
  IF TokenUser(auth) = None THEN Unauthorized("createPost")
  ELSE IF content = ""
  THEN /\ resp' = [op |-> "createPost", status |-> 400, body |-> None]
       /\ UNCHANGED <<aux, now, mock, db, refreshReq>>
  ELSE IF posts = None THEN Thrown("createPost")
  ELSE LET userId == TokenUser(auth)[1]
           user == userById[userId]
           newPost == NewPost(user, content, now)
       IN
       /\ Len(posts[1]) < MaxPosts
       /\ user.xp + 10 <= xpCap
       /\ posts' = Some(<<newPost>> \o posts[1])
       /\ userById' = [userById EXCEPT ![userId].xp = @ + 10]
       /\ resp' = [op |-> "createPost", status |-> 201, body |-> Some(newPost)]
       /\ UNCHANGED <<aux, now, userByName, tokenStore, mockChallenges, lastToggle,
                   db, refreshReq>>

\* posts.find(p => p._id === postId): index of the first match, 0 when none
FindPost(list, postId) ==
  IF \E i \in 1..Len(list) : list[i]._id = postId
  THEN CHOOSE i \in 1..Len(list) :
         /\ list[i]._id = postId
         /\ \A j \in 1..(i-1) : list[j]._id # postId
  ELSE 0

\* likes.indexOf(userId): index of the first occurrence, 0 for -1
IndexOf(likes, userId) ==
  IF \E i \in 1..Len(likes) : likes[i] = userId
  THEN CHOOSE i \in 1..Len(likes) :
         /\ likes[i] = userId
         /\ \A j \in 1..(i-1) : likes[j] # userId
  ELSE 0

\* likes.splice(i, 1)
SpliceOffByOne(likes, i) == SubSeq(likes, 1, i) \o SubSeq(likes, i+2, Len(likes))
Splice(likes, i) == SubSeq(likes, 1, i-1) \o SubSeq(likes, i+1, Len(likes))

\* the likes of the post after the toggle
ToggledLikes(likes, userId) ==
  IF IndexOf(likes, userId) = 0 THEN Append(likes, userId)
  ELSE Splice(likes, IndexOf(likes, userId))

\* the user records after the toggle: the adding branch reads the caller's
\* record and writes it back with 5 more xp, the removing branch writes none
UsersAfterLikeRevoking(users, likes, userId) ==
  IF IndexOf(likes, userId) = 0
  THEN [users EXCEPT ![userId].xp = @ + 5]
  ELSE [users EXCEPT ![userId].xp = @ - 5]
UsersAfterLike(users, likes, userId) ==
  IF IndexOf(likes, userId) = 0
  THEN [users EXCEPT ![userId].xp = @ + 5]
  ELSE users

ToggleLike(auth, postId, xpCap) ==
  IF TokenUser(auth) = None THEN Unauthorized("toggleLike")
  ELSE IF posts = None THEN Thrown("toggleLike")
  ELSE IF FindPost(posts[1], postId) = 0
  THEN /\ resp' = [op |-> "toggleLike", status |-> 404, body |-> None]
       /\ UNCHANGED <<aux, now, mock, db, refreshReq>>
  ELSE LET userId == TokenUser(auth)[1]
           i == FindPost(posts[1], postId)
           post == posts[1][i]
           newPost == [post EXCEPT !.likes = ToggledLikes(post.likes, userId)]
       IN
       /\ UsersAfterLike(userById, post.likes, userId)[userId].xp <= xpCap
       /\ userById' = UsersAfterLike(userById, post.likes, userId)
       /\ posts' = Some([posts[1] EXCEPT ![i] = newPost])
       /\ lastToggle' = Some([userId |-> userId, before |-> post.likes,
                              fromEnd |-> Len(posts[1]) - i])
       /\ resp' = [op |-> "toggleLike", status |-> 200, body |-> Some(newPost)]
       /\ UNCHANGED <<aux, now, userByName, tokenStore, mockChallenges, db, refreshReq>>

\* const xpNeeded = user.level * 100
xpNeededPrevLevel(user) == (user.level - 1) * 100
xpNeeded(user) == user.level * 100

\* the user record written by a level-up
LeveledUpKeepXp(user, rewardItem) ==
  [user EXCEPT !.level = @ + 1,
               !.coins = @ + 100,
               !.inventory = Append(@, rewardItem)]
LeveledUpDiscardExcess(user, rewardItem) ==
  [user EXCEPT !.level = @ + 1,
               !.xp = 0,
               !.coins = @ + 100,
               !.inventory = Append(@, rewardItem)]
LeveledUp(user, rewardItem) ==
  [user EXCEPT !.level = @ + 1,
               !.xp = @ - xpNeeded(user),
               !.coins = @ + 100,
               !.inventory = Append(@, rewardItem)]

LevelUp(auth) ==
  IF TokenUser(auth) = None THEN Unauthorized("level-up")
  ELSE LET userId == TokenUser(auth)[1]
           user == userById[userId]
       IN
       IF user.xp >= xpNeeded(user)
       THEN /\ user.level < MaxLevel
            /\ \E r \in 1..Len(rewardItems) :
                 /\ userById' = [userById EXCEPT
                                   ![userId] = LeveledUp(user, rewardItems[r])]
                 /\ resp' = [op |-> "level-up", status |-> 200,
                             body |-> Some([leveledUp |-> TRUE,
                                            newLevel |-> user.level + 1,
                                            rewardItem |-> rewardItems[r]])]
            /\ UNCHANGED <<aux, now, userByName, tokenStore, posts, mockChallenges,
                        lastToggle, db, refreshReq>>
       ELSE /\ resp' = [op |-> "level-up", status |-> 200,
                        body |-> Some([leveledUp |-> FALSE])]
            /\ UNCHANGED <<aux, now, mock, db, refreshReq>>

\* '/posts' GET
GetPosts(auth) ==
  IF TokenUser(auth) = None THEN Unauthorized("getPosts")
  ELSE IF posts = None THEN Thrown("getPosts")
  ELSE /\ resp' = [op |-> "getPosts", status |-> 200, body |-> Some(posts[1])]
       /\ UNCHANGED <<aux, now, mock, db, refreshReq>>

\* the three challenges that '/challenges' stores when the stored list is empty
seedChallenges ==
  << [_id |-> "challenge_1", type |-> "daily", progress |-> 0, target |-> 3,
      reward |-> 25, completed |-> FALSE],
     [_id |-> "challenge_2", type |-> "daily", progress |-> 0, target |-> 1,
      reward |-> 50, completed |-> FALSE],
     [_id |-> "challenge_3", type |-> "weekly", progress |-> 0, target |-> 5,
      reward |-> 150, completed |-> FALSE] >>

\* '/challenges'; the read of an absent key throws as that of 'posts' does
GetChallenges(auth) ==
  IF TokenUser(auth) = None THEN Unauthorized("challenges")
  ELSE IF mockChallenges = None THEN Thrown("challenges")
  ELSE LET list == IF Len(mockChallenges[1]) = 0 THEN seedChallenges
                   ELSE mockChallenges[1]
       IN
       /\ mockChallenges' = Some(list)
       /\ resp' = [op |-> "challenges", status |-> 200, body |-> Some(list)]
       /\ UNCHANGED <<aux, now, userByName, userById, tokenStore, posts,
                      lastToggle, db, refreshReq>>

\* The handlers as their requests interleave. A handler runs from one await
\* to the next without interruption; a request r keeps its locals in
\* inflight[r]: the user id of the token, the parsed `posts` (lposts), the
\* index of its post in it, the parsed `user` (luser); postId, likes (the
\* likes as read) and credited (the xp was written) are history. The token
\* lookup is taken together with the first read that follows it: tokens are
\* never removed.
Request(op, pc, status) ==
  [op |-> op, pc |-> pc, status |-> status, userId |-> None, index |-> 0,
   adding |-> FALSE, lposts |-> None, luser |-> None, body |-> None,
   postId |-> None, likes |-> <<>>, credited |-> FALSE]

\* the handler of r answers
Respond(r, status, body) ==
  /\ inflight' = [inflight EXCEPT ![r].pc = "done", ![r].status = status,
                                  ![r].body = body]
  /\ resp' = [op |-> inflight[r].op, status |-> status, body |-> body]

\* a request that is answered before its handler reads anything else
Refused(r, op, status) ==
  /\ inflight' = Put(inflight, r, Request(op, "done", status))
  /\ resp' = [op |-> op, status |-> status, body |-> None]
  /\ UNCHANGED <<hist, now, mock, db, refreshReq>>

At(r, op, pc) ==
  r \in DOMAIN inflight /\ inflight[r].op = op /\ inflight[r].pc = pc

\* '/posts/:postId/like' up to the read of the user record or, on the
\* removing branch, up to the write of the posts
LikeStart(r, auth, postId) ==
  /\ r \notin DOMAIN inflight
  /\ IF TokenUser(auth) = None THEN Refused(r, "toggleLike", 401)
     ELSE IF posts = None THEN Refused(r, "toggleLike", 500)
     ELSE IF FindPost(posts[1], postId) = 0 THEN Refused(r, "toggleLike", 404)
     ELSE LET userId == TokenUser(auth)[1]
              i == FindPost(posts[1], postId)
              likes == posts[1][i].likes
              adding == IndexOf(likes, userId) = 0
          IN
          /\ inflight' = Put(inflight, r,
               [Request("toggleLike", IF adding THEN "readUser" ELSE "writePosts", 0)
                  EXCEPT !.userId = Some(userId), !.index = i, !.adding = adding,
                         !.postId = Some(postId), !.likes = likes,
                         !.lposts = Some([posts[1] EXCEPT
                                            ![i].likes = ToggledLikes(likes, userId)])])
          /\ UNCHANGED <<hist, now, mock, db, refreshReq, resp>>

\* the xp a user is owed after an answer that announced `credit` more
XpOwed(userId) == IF userId \in DOMAIN acked.xp THEN acked.xp[userId] ELSE 0
Owed(a, userId, credit) ==
  [a EXCEPT !.xp = Put(acked.xp, userId, XpOwed(userId) + credit)]

\* const user = JSON.parse(await AsyncStorage.getItem(`user_${userId}`))
LikeReadUser(r) ==
  /\ At(r, "toggleLike", "readUser")
  /\ inflight' = [inflight EXCEPT
                    ![r].luser = Some(userById[inflight[r].userId[1]]),
                    ![r].pc = "writeUser"]
  /\ UNCHANGED <<hist, now, mock, db, refreshReq, resp>>

\* user.xp += 5; await AsyncStorage.setItem(`user_${userId}`, ...)
LikeWriteUserAndPosts(r, xpCap) ==
  /\ At(r, "toggleLike", "writeUser")
  /\ inflight[r].luser[1].xp + 5 <= xpCap
  /\ userById' = [userById EXCEPT ![inflight[r].userId[1]] =
                    [inflight[r].luser[1] EXCEPT !.xp = @ + 5]]
  /\ posts' = inflight[r].lposts
  /\ inflight' = [inflight EXCEPT ![r].pc = "writePosts", ![r].credited = TRUE]
  /\ UNCHANGED <<hist, now, userByName, tokenStore, mockChallenges,
                 lastToggle, db, refreshReq, resp>>
LikeWriteUser(r, xpCap) ==
  /\ At(r, "toggleLike", "writeUser")
  /\ inflight[r].luser[1].xp + 5 <= xpCap
  /\ userById' = [userById EXCEPT ![inflight[r].userId[1]] =
                    [inflight[r].luser[1] EXCEPT !.xp = @ + 5]]
  /\ inflight' = [inflight EXCEPT ![r].pc = "writePosts", ![r].credited = TRUE]
  /\ UNCHANGED <<hist, now, userByName, tokenStore, posts, mockChallenges,
                 lastToggle, db, refreshReq, resp>>

\* await AsyncStorage.setItem('posts', JSON.stringify(posts)); res.json(post)
LikeWritePosts(r) ==
  /\ At(r, "toggleLike", "writePosts")
  /\ posts' = inflight[r].lposts
  /\ Respond(r, 200, Some(inflight[r].lposts[1][inflight[r].index]))
  /\ lastToggle' = Some([userId |-> inflight[r].userId[1],
                         before |-> inflight[r].likes,
                         fromEnd |-> Len(inflight[r].lposts[1]) - inflight[r].index])
  /\ LET like == <<inflight[r].userId[1], inflight[r].postId[1]>> IN
     acked' = IF inflight[r].adding
              THEN Owed([acked EXCEPT !.likes = @ \cup {like}], like[1], 5)
              ELSE [acked EXCEPT !.likes = @ \ {like}]
  /\ UNCHANGED <<registeredWith, bearer, now, userByName, userById, tokenStore,
                 mockChallenges, db, refreshReq>>

\* the handler of r does not go on after an await (the process stops)
Stop(r) ==
  /\ r \in DOMAIN inflight
  /\ inflight[r].pc \notin {"done", "stopped"}
  /\ inflight' = [inflight EXCEPT ![r].pc = "stopped"]
  /\ UNCHANGED <<hist, now, mock, db, refreshReq, resp>>

\* '/posts' POST up to the read of the posts: the token, the content, the
\* user record and newPost
PostStart(r, auth, content) ==
  /\ r \notin DOMAIN inflight
  /\ IF TokenUser(auth) = None THEN Refused(r, "createPost", 401)
     ELSE IF content = "" THEN Refused(r, "createPost", 400)
     ELSE LET userId == TokenUser(auth)[1]
              user == userById[userId]
          IN
          /\ inflight' = Put(inflight, r,
               [Request("createPost", "readPosts", 0)
                  EXCEPT !.userId = Some(userId), !.luser = Some(user),
                         !.body = Some(NewPost(user, content, now))])
          /\ UNCHANGED <<hist, now, mock, db, refreshReq, resp>>

\* const posts = JSON.parse(await AsyncStorage.getItem('posts') || []);
\* posts.unshift(newPost)
PostReadPosts(r, cap) ==
  /\ At(r, "createPost", "readPosts")
  /\ IF posts = None
     THEN /\ Respond(r, 500, None)
          /\ UNCHANGED <<hist, now, mock, db, refreshReq>>
     ELSE /\ Len(posts[1]) < cap
          /\ inflight' = [inflight EXCEPT
                            ![r].lposts = Some(<<inflight[r].body[1]>> \o posts[1]),
                            ![r].pc = "writePosts"]
          /\ UNCHANGED <<hist, now, mock, db, refreshReq, resp>>

\* await AsyncStorage.setItem('posts', JSON.stringify(posts))
PostWritePosts(r) ==
  /\ At(r, "createPost", "writePosts")
  /\ posts' = inflight[r].lposts
  /\ inflight' = [inflight EXCEPT ![r].pc = "writeUser"]
  /\ UNCHANGED <<hist, now, userByName, userById, tokenStore, mockChallenges,
                 lastToggle, db, refreshReq, resp>>

\* user.xp += 10; await AsyncStorage.setItem(`user_${userId}`, ...);
\* res.status(201).json(newPost)
PostWriteUser(r, xpCap) ==
  /\ At(r, "createPost", "writeUser")
  /\ inflight[r].luser[1].xp + 10 <= xpCap
  /\ userById' = [userById EXCEPT ![inflight[r].userId[1]] =
                    [inflight[r].luser[1] EXCEPT !.xp = @ + 10]]
  /\ Respond(r, 201, inflight[r].body)
  /\ acked' = Owed([acked EXCEPT !.posts = @ \cup {inflight[r].body[1]}],
                   inflight[r].userId[1], 10)
  /\ UNCHANGED <<registeredWith, bearer, now, userByName, tokenStore, posts,
                 mockChallenges, lastToggle, db, refreshReq>>

\* '/level-up' up to the write of the user record; a user below the
\* threshold is answered at once
LevelStart(r, auth) ==
  /\ r \notin DOMAIN inflight
  /\ IF TokenUser(auth) = None THEN Refused(r, "level-up", 401)
     ELSE LET userId == TokenUser(auth)[1]
              user == userById[userId]
          IN
          IF user.xp >= xpNeeded(user)
          THEN /\ user.level < MaxLevel
               /\ inflight' = Put(inflight, r,
                    [Request("level-up", "writeUser", 0)
                       EXCEPT !.userId = Some(userId), !.luser = Some(user)])
               /\ UNCHANGED <<hist, now, mock, db, refreshReq, resp>>
          ELSE /\ inflight' = Put(inflight, r,
                    [Request("level-up", "done", 200)
                       EXCEPT !.userId = Some(userId),
                              !.body = Some([leveledUp |-> FALSE])])
               /\ resp' = [op |-> "level-up", status |-> 200,
                           body |-> Some([leveledUp |-> FALSE])]
               /\ UNCHANGED <<hist, now, mock, db, refreshReq>>

\* await AsyncStorage.setItem(`user_${userId}`, ...); res.json({leveledUp: true, ...})
LevelWriteUser(r) ==
  /\ At(r, "level-up", "writeUser")
  /\ LET user == inflight[r].luser[1] IN
     \E i \in 1..Len(rewardItems) :
       /\ userById' = [userById EXCEPT
                         ![inflight[r].userId[1]] = LeveledUp(user, rewardItems[i])]
       /\ Respond(r, 200, Some([leveledUp |-> TRUE,
                                newLevel |-> user.level + 1,
                                rewardItem |-> rewardItems[i]]))
       /\ acked' = Owed(acked, inflight[r].userId[1], 0 - xpNeeded(user))
  /\ UNCHANGED <<registeredWith, bearer, now, userByName, tokenStore, posts,
                 mockChallenges, lastToggle, db, refreshReq>>

TickMs ==
  /\ now < MaxMs
  /\ now' = now + 1
  /\ UNCHANGED <<aux, mock, db, refreshReq, resp>>

-----------------------------------------------------------------------------
(* src/unnamed/part_000: the Express server *)

MsPerHour == 60 * 60 * 1000
MsPerDay == 24 * MsPerHour
ConsecutiveWindow == 24 * 60 * 60 * 1000 * 2
AccessTtl == 15 * 60              \* expiresIn '15m', seconds
RefreshTtl == 7 * 24 * 60 * 60    \* expiresIn '7d', seconds

JWT_SECRET == "JWT_SECRET"
JWT_REFRESH_SECRET == "JWT_REFRESH_SECRET"

\* Date.prototype.toDateString(): weekday and calendar date of the day that
\* holds t (day 0 is Thu Jan 01 1970; the server's zone is taken to be UTC)
toDateString(t) == [weekday |-> ((t \div MsPerDay) + 4) % 7,
                    date |-> t \div MsPerDay]

\* jwt.sign(payload, secret, {expiresIn}): the token is a function of the
\* payload, the issue second and the secret, and of nothing else
Sign(id, secret, ttl) ==
  [id |-> id, iat |-> now \div 1000, exp |-> (now \div 1000) + ttl, key |-> secret]

\* jwt.verify(token, secret): the signature first, then the expiry
Verify(token, secret) ==
  IF token.key # secret THEN "JsonWebTokenError"
  ELSE IF now \div 1000 >= token.exp THEN "TokenExpiredError"
  ELSE "ok"

generateTokens(userId) ==
  [accessToken |-> Sign(userId, JWT_SECRET, AccessTtl),
   refreshToken |-> Sign(userId, JWT_REFRESH_SECRET, RefreshTtl)]

\* bcrypt.hash / bcrypt.compare
Hash(password) == <<"bcrypt", password>>
Compare(password, hashed) == hashed = Hash(password)

\* new User({username, password}) with the schema defaults
NewUserStreakOne(username, hashedPassword) ==
  [_id |-> username, username |-> username, password |-> hashedPassword,
   level |-> 1, xp |-> 0, coins |-> 100, streak |-> 1, lastActive |-> now,
   inventory |-> <<>>, challengesCompleted |-> 0, title |-> "Newbie",
   refreshToken |-> None]
NewUser(username, hashedPassword) ==
  [_id |-> username, username |-> username, password |-> hashedPassword,
   level |-> 1, xp |-> 0, coins |-> 100, streak |-> 0, lastActive |-> now,
   inventory |-> <<>>, challengesCompleted |-> 0, title |-> "Newbie",
   refreshToken |-> None]

\* userSchema.username validators (the names used are alphanumeric)
ValidUsername(username) == Len(username) >= 3 /\ Len(username) <= 20

\* now.setHours(23, 59, 59, 999) moves `now` itself, so the weekly challenge
\* expires seven days after the end of today
createDefaultChallenges(userId) ==
  LET endOfDay == (now \div MsPerDay) * MsPerDay + MsPerDay - 1 IN
  << [userId |-> userId, type |-> "daily", target |-> 3, reward |-> 50,
      progress |-> 0, completed |-> FALSE, expiresAt |-> endOfDay],
     [userId |-> userId, type |-> "weekly", target |-> 50, reward |-> 200,
      progress |-> 0, completed |-> FALSE,
      expiresAt |-> endOfDay + 7 * 24 * 60 * 60 * 1000] >>

Reply(op, status, body) == resp' = [op |-> op, status |-> status, body |-> body]

AuthRegister(username, password) ==
  IF username = "" \/ password = "" \/ Len(password) < 8
  THEN Reply("auth/register", 400, None) /\ UNCHANGED <<aux, now, mock, db, refreshReq>>
  ELSE IF username \in DOMAIN dbUsers
  THEN Reply("auth/register", 409, None) /\ UNCHANGED <<aux, now, mock, db, refreshReq>>
  ELSE IF ~ValidUsername(username)
  THEN Reply("auth/register", 500, None) /\ UNCHANGED <<aux, now, mock, db, refreshReq>>
  ELSE LET user == NewUser(username, Hash(password))
           challenges == createDefaultChallenges(user._id)
       IN
       /\ dbUsers' = Put(dbUsers, username, user)
       /\ loginDays' = Put(loginDays, username, {})
       /\ prevRefresh' = Put(prevRefresh, username, None)
       /\ IF \A i \in 1..Len(challenges) : challenges[i].expiresAt > now
          THEN /\ dbChallenges' = dbChallenges \o challenges
               /\ Reply("auth/register", 201, Some([userId |-> user._id]))
          ELSE /\ dbChallenges' = dbChallenges
               /\ Reply("auth/register", 500, None)
       /\ UNCHANGED <<aux, now, mock, dbPosts, refreshReq>>

\* The same handler as its requests interleave: between two awaits (findOne,
\* save, insertMany) other requests are handled. A request r has the locals
\* inflight[r]; dup and wrote are history: the username was registered when
\* the request came in or by another request since, and the request wrote.
Answer(r, status, body) ==
  /\ inflight' = [inflight EXCEPT ![r].pc = "done", ![r].status = status]
  /\ Reply(inflight[r].op, status, body)

RegisterStart(r, username, password) ==
  /\ r \notin DOMAIN inflight
  /\ LET bad == username = "" \/ password = "" \/ Len(password) < 8 IN
     /\ inflight' = Put(inflight, r,
          [op |-> "auth/register", username |-> username, password |-> password,
           pc |-> IF bad THEN "done" ELSE "findOne",
           status |-> IF bad THEN 400 ELSE 0,
           dup |-> ~bad /\ username \in DOMAIN dbUsers, wrote |-> FALSE])
     /\ IF bad THEN Reply("auth/register", 400, None) ELSE UNCHANGED resp
  /\ UNCHANGED <<hist, now, mock, db, refreshReq>>

\* const existingUser = await User.findOne({ username })
RegisterFindOne(r) ==
  /\ r \in DOMAIN inflight
  /\ inflight[r].op = "auth/register" /\ inflight[r].pc = "findOne"
  /\ IF inflight[r].username \in DOMAIN dbUsers
     THEN Answer(r, 409, None)
     ELSE inflight' = [inflight EXCEPT ![r].pc = "save"] /\ UNCHANGED resp
  /\ UNCHANGED <<hist, now, mock, db, refreshReq>>

\* await user.save(): the schema validators, then the insert, which the
\* unique index on username refuses (E11000) when the name is taken; both
\* errors end in the catch of the handler
RegisterSave(r) ==
  /\ r \in DOMAIN inflight
  /\ inflight[r].op = "auth/register" /\ inflight[r].pc = "save"
  /\ LET username == inflight[r].username IN
     IF ~ValidUsername(username) \/ username \in DOMAIN dbUsers
     THEN Answer(r, 500, None) /\ UNCHANGED <<hist, now, mock, db, refreshReq>>
     ELSE /\ dbUsers' = Put(dbUsers, username,
                            NewUser(username, Hash(inflight[r].password)))
          /\ loginDays' = Put(loginDays, username, {})
          /\ prevRefresh' = Put(prevRefresh, username, None)
          /\ inflight' = [q \in DOMAIN inflight |->
               IF q = r
               THEN [inflight[q] EXCEPT !.pc = "insertMany", !.wrote = TRUE]
               ELSE IF /\ inflight[q].op = "auth/register"
                       /\ inflight[q].username = username
                       /\ inflight[q].pc # "done"
               THEN [inflight[q] EXCEPT !.dup = TRUE]
               ELSE inflight[q]]
          /\ UNCHANGED <<hist, now, mock, dbChallenges, dbPosts, refreshReq,
                       resp>>

\* await createDefaultChallenges(user._id), then the 201
RegisterChallenges(r) ==
  /\ r \in DOMAIN inflight
  /\ inflight[r].op = "auth/register" /\ inflight[r].pc = "insertMany"
  /\ LET userId == dbUsers[inflight[r].username]._id
         challenges == createDefaultChallenges(userId)
     IN
     IF \A i \in 1..Len(challenges) : challenges[i].expiresAt > now
     THEN /\ dbChallenges' = dbChallenges \o challenges
          /\ Answer(r, 201, Some([userId |-> userId]))
     ELSE /\ dbChallenges' = dbChallenges
          /\ Answer(r, 500, None)
  /\ UNCHANGED <<hist, now, mock, dbUsers, dbPosts, loginDays, prevRefresh,
               refreshReq>>

isNewDayByInstant(t, lastActive) == t # lastActive
isNewDay(t, lastActive) == toDateString(t) # toDateString(lastActive)

isConsecutiveInclusive(t, lastActive) == (t - lastActive) <= ConsecutiveWindow
isConsecutive(t, lastActive) == (t - lastActive) < ConsecutiveWindow

\* the streak logic of the login handler: the user document after it
Streaked(user) ==
  IF isNewDay(now, user.lastActive)
  THEN [user EXCEPT !.streak = IF isConsecutive(now, user.lastActive)
                               THEN @ + 1 ELSE 1,
                    !.lastActive = now]
  ELSE user

AuthLogin(username, password) ==
  IF username = "" \/ password = ""
  THEN Reply("auth/login", 400, None) /\ UNCHANGED <<aux, now, mock, db, refreshReq>>
  ELSE IF username \notin DOMAIN dbUsers
  THEN Reply("auth/login", 404, None) /\ UNCHANGED <<aux, now, mock, db, refreshReq>>
  ELSE IF ~Compare(password, dbUsers[username].password)
  THEN Reply("auth/login", 401, None) /\ UNCHANGED <<aux, now, mock, db, refreshReq>>
  ELSE LET user == Streaked(dbUsers[username])
           tokens == generateTokens(user._id)
       IN
       /\ dbUsers' = [dbUsers EXCEPT ![username] =
                        [user EXCEPT !.refreshToken = Some(tokens.refreshToken)]]
       /\ loginDays' = [loginDays EXCEPT ![username] =
                          @ \cup {now \div MsPerDay}]
       /\ prevRefresh' = [prevRefresh EXCEPT ![username] =
                            dbUsers[username].refreshToken]
       /\ Reply("auth/login", 200,
                Some([accessToken |-> tokens.accessToken,
                      refreshToken |-> tokens.refreshToken,
                      user |-> [_id |-> user._id, username |-> user.username,
                                level |-> user.level, xp |-> user.xp,
                                coins |-> user.coins, streak |-> user.streak,
                                inventory |-> user.inventory,
                                title |-> user.title]]))
       /\ UNCHANGED <<aux, now, mock, dbChallenges, dbPosts, refreshReq>>

\* !user || user.refreshToken !== refreshToken, negated
RefreshMatchesUserOnly(token) == token.id \in DOMAIN dbUsers
RefreshMatches(token) ==
  /\ token.id \in DOMAIN dbUsers
  /\ dbUsers[token.id].refreshToken = Some(token)

AuthRefresh(presented) ==
  /\ refreshReq' = presented
  /\ IF presented = None
     THEN Reply("auth/refresh", 401, None) /\ UNCHANGED <<aux, now, mock, db>>
     ELSE IF Verify(presented[1], JWT_REFRESH_SECRET) # "ok"
     THEN Reply("auth/refresh", 403, None) /\ UNCHANGED <<aux, now, mock, db>>
     ELSE IF ~RefreshMatches(presented[1])
     THEN Reply("auth/refresh", 403, None) /\ UNCHANGED <<aux, now, mock, db>>
     ELSE LET id == presented[1].id
              tokens == generateTokens(id)
          IN
          /\ dbUsers' = [dbUsers EXCEPT ![id].refreshToken =
                                          Some(tokens.refreshToken)]
          /\ prevRefresh' = [prevRefresh EXCEPT ![id] = dbUsers[id].refreshToken]
          /\ Reply("auth/refresh", 200,
                   Some([accessToken |-> tokens.accessToken,
                         refreshToken |-> tokens.refreshToken]))
          /\ UNCHANGED <<aux, now, mock, dbChallenges, dbPosts, loginDays>>

\* authenticateToken: 0 when next() is called, else the status it answers
authenticateTokenNoExpiry(auth) ==
  IF auth = None THEN 401
  ELSE IF Verify(auth[1], JWT_SECRET) = "JsonWebTokenError" THEN 403
  ELSE IF auth[1].id \notin DOMAIN dbUsers THEN 403
  ELSE 0
authenticateToken(auth) ==
  IF auth = None THEN 401
  ELSE IF Verify(auth[1], JWT_SECRET) = "TokenExpiredError" THEN 401
  ELSE IF Verify(auth[1], JWT_SECRET) # "ok" THEN 403
  ELSE IF auth[1].id \notin DOMAIN dbUsers THEN 403
  ELSE 0

\* .select('-password -refreshToken')
Profile(user) ==
  [f \in DOMAIN user \ {"password", "refreshToken"} |-> user[f]]

\* app.get('/users/me')
UsersMe(auth) ==
  /\ bearer' = auth
  /\ IF authenticateToken(auth) # 0
     THEN Reply("users/me", authenticateToken(auth), None)
     ELSE Reply("users/me", 200, Some(Profile(dbUsers[auth[1].id])))
  /\ UNCHANGED <<inflight, registeredWith, acked, now, mock, db, refreshReq>>

\* parseInt(req.query.x) || dflt: an absent, unreadable or zero parameter
\* gives the default
Param(q, dflt) == IF q = None \/ q[1] = 0 THEN dflt ELSE q[1]

\* Math.ceil(total / limit), limit >= 1
Ceil(total, limit) == (total + limit - 1) \div limit

\* .sort({ createdAt: -1 }): the orders of the collection with no post before
\* a newer one (posts of one millisecond come in either order)
NewestFirst(list) ==
  {s \in Permutations(1..Len(list)) :
     \A i \in 1..(Len(list) - 1) :
       list[s[i]].createdAt >= list[s[i + 1]].createdAt}

\* .skip(skip).limit(limit) of the documents in the order s
PageOffByOne(list, s, skip, limit) ==
  [k \in 1..(IF Len(list) - skip - 1 < 0 THEN 0
             ELSE IF Len(list) - skip - 1 < limit THEN Len(list) - skip - 1
             ELSE limit) |-> list[s[skip + 1 + k]]]
Page(list, s, skip, limit) ==
  [k \in 1..(IF Len(list) - skip < 0 THEN 0
             ELSE IF Len(list) - skip < limit THEN Len(list) - skip
             ELSE limit) |-> list[s[skip + k]]]

\* .populate('userId', 'username title')
Populate(post) ==
  [post EXCEPT !.userId = [_id |-> @, username |-> dbUsers[@].username,
                           title |-> dbUsers[@].title]]

\* app.get('/posts')
ListPosts(auth, qpage, qlimit) ==
  /\ bearer' = auth
  /\ IF authenticateToken(auth) # 0
     THEN Reply("posts", authenticateToken(auth), None)
     ELSE LET page == Param(qpage, 1)
              limit == Param(qlimit, 10)
              skip == (page - 1) * limit
          IN \E s \in NewestFirst(dbPosts) :
               LET found == Page(dbPosts, s, skip, limit) IN
               Reply("posts", 200,
                     Some([posts |-> [k \in DOMAIN found |-> Populate(found[k])],
                           total |-> Len(dbPosts),
                           page |-> page,
                           pages |-> Ceil(Len(dbPosts), limit)]))
  /\ UNCHANGED <<inflight, registeredWith, acked, now, mock, db, refreshReq>>

\* The route that creates posts is not part of the source; a post document
\* is inserted for an authenticated user, createdAt being the time of the
\* insert (timestamps: true).
InsertPost(auth, content) ==
  /\ authenticateToken(auth) = 0
  /\ Len(dbPosts) < MaxFeed
  /\ bearer' = auth
  /\ Len(content) >= 1 /\ Len(content) <= 500
  /\ dbPosts' = Append(dbPosts,
       [_id |-> Len(dbPosts) + 1, userId |-> auth[1].id, content |-> content,
        likes |-> <<>>, comments |-> <<>>, createdAt |-> now])
  /\ Reply("createPost", 201, None)
  /\ UNCHANGED <<inflight, registeredWith, acked, now, mock, dbUsers, dbChallenges,
                 loginDays, prevRefresh, refreshReq>>

\* the wall clock moves on by d milliseconds
Tick(d, horizon) ==
  /\ now + d <= horizon
  /\ now' = now + d
  /\ UNCHANGED <<aux, mock, db, refreshReq, resp>>

-----------------------------------------------------------------------------

\* A fresh store. AsyncStorage outlives the server and no handler creates the
\* 'posts' key, so the key is absent or was stored (as an empty list) before
\* the server started.
Fresh ==
  /\ now = 0
  /\ userByName = <<>>
  /\ userById = <<>>
  /\ tokenStore = <<>>
  /\ posts \in {None, Some(<<>>)}
  /\ lastToggle = None
  /\ dbUsers = <<>>
  /\ dbChallenges = <<>>
  /\ loginDays = <<>>
  /\ prevRefresh = <<>>
  /\ refreshReq = None
  /\ inflight = <<>>
  /\ registeredWith = <<>>
  /\ bearer = None
  /\ acked = [posts |-> {}, likes |-> {}, xp |-> <<>>]
  /\ resp = [op |-> "none", status |-> 0, body |-> None]

Init == Fresh /\ mockChallenges = None /\ dbPosts = <<>>

Auths == {None} \cup {Some(t) : t \in 0..MaxMs}

\* Level-ups: one user whose requests are all handled within one millisecond
\* (the mock handlers read the clock only to name new records and tokens)
NextLevel ==
  \/ \E u \in LevelUsers, p \in MockPasswords : Register(u, p)
  \/ \E u \in LevelUsers, p \in MockPasswords : Login(u, p)
  \/ \E a \in Auths, c \in Contents : CreatePost(a, c, MaxXp)
  \/ \E a \in Auths, id \in 0..MaxMs : ToggleLike(a, id, MaxXp)
  \/ \E a \in Auths : LevelUp(a)

SpecLevel == Init /\ [][NextLevel]_vars

\* Likes: two users, posts and like toggles
NextLike ==
  \/ \E u \in Usernames, p \in MockPasswords : Register(u, p)
  \/ \E u \in Usernames, p \in MockPasswords : Login(u, p)
  \/ \E a \in Auths, c \in Contents : CreatePost(a, c, MaxLikeXp)
  \/ \E a \in Auths, id \in 0..MaxMs : ToggleLike(a, id, MaxLikeXp)
  \/ TickMs

SpecLike == Init /\ [][NextLike]_vars

\* Posting: one user, contents of 0, 2, 500 and 501 characters
NextPost ==
  \/ \E u \in LevelUsers, p \in MockPasswords : Register(u, p)
  \/ \E u \in LevelUsers, p \in MockPasswords : Login(u, p)
  \/ \E a \in Auths, c \in PostContents : CreatePost(a, c, MaxXp)
  \/ TickMs

SpecPost == Init /\ [][NextPost]_vars

\* Registration: both servers, users that post and log in between
\* registrations
NextRegister ==
  \/ \E u \in Usernames, p \in MockPasswords : Register(u, p)
  \/ \E a \in Auths, c \in Contents : CreatePost(a, c, MaxLikeXp)
  \/ \E u \in TokenUsers, p \in AuthPasswords : AuthRegister(u, p)
  \/ \E u \in TokenUsers, p \in AuthPasswords : AuthLogin(u, p)
  \/ TickMs

SpecRegister == Init /\ [][NextRegister]_vars

\* Logins: both servers, one user, the clock read once a day
NextLogin ==
  \/ \E u \in StreakUsers, p \in MockPasswords : Register(u, p)
  \/ \E u \in StreakUsers, p \in MockPasswords : Login(u, p)
  \/ \E u \in StreakUsers, p \in AuthPasswords : AuthRegister(u, p)
  \/ \E u \in StreakUsers, p \in AuthPasswords : AuthLogin(u, p)
  \/ Tick(MsPerDay, MaxDays * MsPerDay)

SpecLogin == Init /\ [][NextLogin]_vars

\* Bearer tokens: the operations behind a token check on both servers; the
\* clock moves by the lifetime of an access token
BearerTokens ==
  {[id |-> u, iat |-> t, exp |-> t + AccessTtl, key |-> JWT_SECRET] :
     u \in Usernames, t \in {0, AccessTtl}}
  \cup {[id |-> u, iat |-> 0, exp |-> RefreshTtl, key |-> JWT_REFRESH_SECRET] :
     u \in Usernames}
Bearers == {None} \cup {Some(t) : t \in BearerTokens}
Queries == {None} \cup {Some(n) : n \in 0..MaxPageSize}

\* no key of the mock server was stored yet, or both lists were stored empty
InitBearer ==
  /\ Fresh
  /\ mockChallenges = IF posts = None THEN None ELSE Some(<<>>)
  /\ dbPosts = <<>>

NextBearer ==
  \/ \E u \in LevelUsers : Register(u, "secret7")
  \/ \E a \in Auths : GetPosts(a)
  \/ \E a \in Auths, c \in Contents : CreatePost(a, c, MaxLikeXp)
  \/ \E a \in Auths, id \in 0..MaxMs : ToggleLike(a, id, MaxLikeXp)
  \/ \E a \in Auths : GetChallenges(a)
  \/ \E a \in Auths : LevelUp(a)
  \/ \E u \in LevelUsers : AuthRegister(u, "password1")
  \/ \E u \in LevelUsers : AuthLogin(u, "password1")
  \/ \E a \in Bearers : UsersMe(a)
  \/ \E a \in Bearers : ListPosts(a, None, None)
  \/ Tick(AccessTtl * 1000, AccessTtl * 1000)

SpecBearer == InitBearer /\ [][NextBearer]_vars

\* Pages of the feed: one user, posts of the same and of different
\* milliseconds
PageBearers ==
  {None} \cup {Some(t) : t \in {b \in BearerTokens : b.id \in LevelUsers /\ b.iat = 0}}

NextPages ==
  \/ \E u \in LevelUsers : AuthRegister(u, "password1")
  \/ \E u \in LevelUsers : AuthLogin(u, "password1")
  \/ \E a \in PageBearers : InsertPost(a, "hi")
  \/ \E a \in PageBearers, qp, ql \in Queries : ListPosts(a, qp, ql)
  \/ TickMs

SpecPages == Init /\ [][NextPages]_vars

Requests == 1..MaxRequests

\* Likes whose handler may stop between two awaits: one user, one post
NextLikeStop ==
  \/ \E u \in LevelUsers : Register(u, "secret7")
  \/ \E a \in Auths : CreatePost(a, "hi", MaxXp)
  \/ \E r \in Requests, a \in Auths, id \in 0..MaxMs : LikeStart(r, a, id)
  \/ \E r \in Requests : LikeReadUser(r)
  \/ \E r \in Requests : LikeWriteUser(r, MaxXp)
  \/ \E r \in Requests : LikeWritePosts(r)
  \/ \E r \in Requests : Stop(r)

SpecLikeStop == Init /\ [][NextLikeStop]_vars

\* createPost, toggleLike and level-up requests of one user handled at the
\* same time, await by await. They start after alice registered, posted
\* once and toggled the like of her post until her xp is 10 or 10 above the
\* threshold of level 1, all in millisecond 0; the copy under her username
\* is as '/register' stored it.
InitRace ==
  LET user == NewMockUser("alice", 0) IN
  /\ now = 0
  /\ acked \in {[posts |-> {}, likes |-> {}, xp |-> Put(<<>>, user._id, xp)] :
                  xp \in {10, xpNeeded(user) + 10}}
  /\ userByName = Put(<<>>, "alice", user)
  /\ userById = Put(<<>>, user._id, [user EXCEPT !.xp = acked.xp[user._id]])
  /\ tokenStore = Put(<<>>, 0, user._id)
  /\ registeredWith = Put(<<>>, "alice", "secret7")
  /\ posts = Some(<<NewPost(user, "hi", 0)>>)
  /\ lastToggle = IF acked.xp[user._id] = 10 THEN None
                  ELSE Some([userId |-> user._id, before |-> <<user._id>>,
                             fromEnd |-> 0])
  /\ mockChallenges = None
  /\ dbUsers = <<>> /\ dbChallenges = <<>> /\ dbPosts = <<>>
  /\ loginDays = <<>> /\ prevRefresh = <<>> /\ refreshReq = None
  /\ inflight = <<>> /\ bearer = None
  /\ resp = IF lastToggle = None
            THEN [op |-> "createPost", status |-> 201, body |-> Some(posts[1][1])]
            ELSE [op |-> "toggleLike", status |-> 200, body |-> Some(posts[1][1])]

NextRace ==
  \/ \E r \in Requests, a \in Auths : PostStart(r, a, "hi")
  \/ \E r \in Requests : PostReadPosts(r, MaxPosts + 1)
  \/ \E r \in Requests : PostWritePosts(r)
  \/ \E r \in Requests : PostWriteUser(r, MaxXp)
  \/ \E r \in Requests, a \in Auths, id \in 0..MaxMs : LikeStart(r, a, id)
  \/ \E r \in Requests : LikeReadUser(r)
  \/ \E r \in Requests : LikeWriteUser(r, MaxXp)
  \/ \E r \in Requests : LikeWritePosts(r)
  \/ \E r \in Requests, a \in Auths : LevelStart(r, a)
  \/ \E r \in Requests : LevelWriteUser(r)
  \/ TickMs

SpecRace == InitRace /\ [][NextRace]_vars

\* Registration requests of the Express server handled at the same time
NextRegisterRace ==
  \/ \E r \in Requests, u \in TokenUsers, p \in AuthPasswords :
       RegisterStart(r, u, p)
  \/ \E r \in Requests : RegisterFindOne(r)
  \/ \E r \in Requests : RegisterSave(r)
  \/ \E r \in Requests : RegisterChallenges(r)

SpecRegisterRace == Init /\ [][NextRegisterRace]_vars

\* The login streak: one user, the clock read every TickHours hours
StreakHorizon == MaxTicks * TickHours * MsPerHour

NextStreak ==
  \/ \E u \in StreakUsers, p \in AuthPasswords : AuthRegister(u, p)
  \/ \E u \in StreakUsers, p \in AuthPasswords : AuthLogin(u, p)
  \/ Tick(TickHours * MsPerHour, StreakHorizon)

SpecStreak == Init /\ [][NextStreak]_vars

\* Refresh tokens: the clock moves by a second during the first MaxSeconds
\* seconds, and by the lifetime of a refresh token
TokenHorizon == (RefreshTtl + MaxSeconds) * 1000
IssueSeconds == (0..MaxSeconds) \cup {RefreshTtl + s : s \in 0..MaxSeconds}
SignedTokens ==
  {[id |-> u, iat |-> t, exp |-> t + RefreshTtl, key |-> JWT_REFRESH_SECRET] :
     u \in Usernames, t \in IssueSeconds}
  \cup {[id |-> u, iat |-> t, exp |-> t + AccessTtl, key |-> JWT_SECRET] :
     u \in Usernames, t \in IssueSeconds}

NextToken ==
  \/ \E u \in TokenUsers, p \in AuthPasswords : AuthRegister(u, p)
  \/ \E u \in TokenUsers, p \in AuthPasswords : AuthLogin(u, p)
  \/ \E t \in {None} \cup {Some(x) : x \in SignedTokens} : AuthRefresh(t)
  \/ Tick(1000, MaxSeconds * 1000)
  \/ Tick(RefreshTtl * 1000, TokenHorizon)

SpecToken == Init /\ [][NextToken]_vars

-----------------------------------------------------------------------------
(* Level-up check: src/App.tsx '/level-up' *)

\* a level-up check of the user that the token of `auth` names
LevelUpBy(auth) == TokenUser(auth) # None /\ LevelUp(auth)
Caller(auth) == userById[TokenUser(auth)[1]]
RewardSet == {rewardItems[r] : r \in 1..Len(rewardItems)}
AnsweredLevelUp(leveledUp) ==
  /\ resp.op = "level-up" /\ resp.status = 200
  /\ resp.body[1].leveledUp = leveledUp

\* C1 as stated: after every level-up check the caller's xp is below
\* level * 100, level being the level after the check.
C1_XpBelowThresholdAlways ==
  [][\A a \in Auths : LevelUpBy(a) =>
       Caller(a)'.xp < Caller(a)'.level * 100]_vars

\* C1, amended: after a level-up check of a user whose xp was below
\* (2 * level + 1) * 100 before it, the xp is below level * 100, level being
\* the level after the check.
C1_XpBelowThreshold ==
  [][\A a \in Auths :
       (LevelUpBy(a) /\ Caller(a).xp < (2 * Caller(a).level + 1) * 100) =>
         Caller(a)'.xp < Caller(a)'.level * 100]_vars

C1_Witness ==
  /\ AnsweredLevelUp(TRUE)
  /\ \E id \in DOMAIN userById :
       /\ userById[id].level = 2
       /\ userById[id].xp > 0 /\ userById[id].xp < 200

\* C2: a level-up check with xp >= level * 100 raises the level by one,
\* takes the old level * 100 off xp once, adds 100 coins, appends one item of
\* the reward set to the inventory and answers leveledUp = true with the new
\* level and that item.
C2_OneLevelUp ==
  [][\A a \in Auths :
       (LevelUpBy(a) /\ Caller(a).xp >= Caller(a).level * 100) =>
         \E item \in RewardSet :
           /\ Caller(a)'.level = Caller(a).level + 1
           /\ Caller(a)'.xp = Caller(a).xp - Caller(a).level * 100
           /\ Caller(a)'.coins = Caller(a).coins + 100
           /\ Caller(a)'.inventory = Caller(a).inventory \o <<item>>
           /\ resp' = [op |-> "level-up", status |-> 200,
                       body |-> Some([leveledUp |-> TRUE,
                                      newLevel |-> Caller(a).level + 1,
                                      rewardItem |-> item])]]_vars

C2_Witness ==
  /\ AnsweredLevelUp(TRUE)
  /\ resp.body[1].newLevel = 2
  /\ \E id \in DOMAIN userById :
       userById[id].level = 2 /\ userById[id].xp >= 200

\* C3: a level-up check with xp < level * 100 changes no level, xp, coins or
\* inventory and answers leveledUp = false.
C3_NoLevelUp ==
  [][\A a \in Auths :
       (LevelUpBy(a) /\ Caller(a).xp < Caller(a).level * 100) =>
         /\ userById' = userById
         /\ userByName' = userByName
         /\ resp' = [op |-> "level-up", status |-> 200,
                     body |-> Some([leveledUp |-> FALSE])]]_vars

C3_Witness ==
  /\ AnsweredLevelUp(FALSE)
  /\ \E id \in DOMAIN userById :
       userById[id].level = 1 /\ userById[id].xp = 95

-----------------------------------------------------------------------------
(* Login streak: src/unnamed/part_000 app.post('/auth/login') *)

\* a login of u that is answered with 200
LoggedIn(u, p) == AuthLogin(u, p) /\ resp'.status = 200
CalendarDay(t) == t \div MsPerDay
Hours48 == 48 * 60 * 60 * 1000
\* the last response is that of a successful login made at the current instant
JustLoggedIn(u) ==
  /\ resp.op = "auth/login" /\ resp.status = 200
  /\ resp.body[1].user.username = u
  /\ resp.body[1].refreshToken.iat = now \div 1000

\* C4: a successful login at a time on the calendar day of lastActive leaves
\* streak and lastActive unchanged, in every such login of a row of them.
C4_SameDayLogin ==
  [][\A u \in StreakUsers, p \in AuthPasswords :
       (LoggedIn(u, p) /\ CalendarDay(now) = CalendarDay(dbUsers[u].lastActive))
         => /\ dbUsers'[u].streak = dbUsers[u].streak
            /\ dbUsers'[u].lastActive = dbUsers[u].lastActive]_vars

\* two logins in a row later on the day of lastActive
C4_Witness ==
  \E u \in DOMAIN dbUsers :
    /\ JustLoggedIn(u)
    /\ dbUsers[u].streak >= 1
    /\ dbUsers[u].lastActive < now
    /\ prevRefresh[u] # None
    /\ prevRefresh[u][1].iat * 1000 > dbUsers[u].lastActive

\* C5: a successful login on another calendar day than lastActive makes the
\* streak streak + 1 when now - lastActive is under 48 hours and 1 otherwise,
\* and makes lastActive the login time.
C5_NewDayLogin ==
  [][\A u \in StreakUsers, p \in AuthPasswords :
       (LoggedIn(u, p) /\ CalendarDay(now) # CalendarDay(dbUsers[u].lastActive))
         => /\ dbUsers'[u].streak =
                 IF now - dbUsers[u].lastActive < Hours48
                 THEN dbUsers[u].streak + 1 ELSE 1
            /\ dbUsers'[u].lastActive = now]_vars

\* a login that reset the streak: three days with logins, the streak is 1
C5_Witness ==
  \E u \in DOMAIN dbUsers :
    /\ JustLoggedIn(u)
    /\ dbUsers[u].lastActive = now
    /\ dbUsers[u].streak = 1
    /\ Cardinality(loginDays[u]) = 3

Latest(days) == CHOOSE d \in days : \A e \in days : e <= d
\* the number of consecutive days in `days` that end with its latest day
ConsecutiveDays(days) ==
  Cardinality({n \in 1..(Latest(days) + 1) :
                 \A d \in (Latest(days) - n + 1)..Latest(days) : d \in days})

\* C6: after registration and successful logins, the streak of a user is the
\* number of consecutive calendar days, ending with the day of the most
\* recent login, on each of which the user logged in.
C6_StreakCountsDays ==
  \A u \in DOMAIN dbUsers :
    loginDays[u] # {} => dbUsers[u].streak = ConsecutiveDays(loginDays[u])

-----------------------------------------------------------------------------
(* Refresh tokens: src/unnamed/part_000 app.post('/auth/refresh') *)

\* a refresh request presenting `token` would be answered with new tokens
Accepted(token) ==
  /\ Verify(token, JWT_REFRESH_SECRET) = "ok"
  /\ token.id \in DOMAIN dbUsers
  /\ dbUsers[token.id].refreshToken = Some(token)

\* C7: a refresh request with a correctly signed, unexpired refresh token
\* that is not the token stored for its user, or whose user does not exist,
\* is answered 403 without tokens and leaves the stored tokens unchanged.
C7_MismatchRejected ==
  [][\A t \in SignedTokens :
       (/\ AuthRefresh(Some(t))
        /\ Verify(t, JWT_REFRESH_SECRET) = "ok"
        /\ \/ t.id \notin DOMAIN dbUsers
           \/ dbUsers[t.id].refreshToken # Some(t))
         => /\ resp' = [op |-> "auth/refresh", status |-> 403, body |-> None]
            /\ dbUsers' = dbUsers]_vars

\* the token issued before the latest one, still unexpired, was presented
\* and refused
C7_Witness ==
  /\ resp.op = "auth/refresh" /\ resp.status = 403
  /\ refreshReq # None
  /\ Verify(refreshReq[1], JWT_REFRESH_SECRET) = "ok"
  /\ refreshReq[1].id \in DOMAIN dbUsers
  /\ prevRefresh[refreshReq[1].id] = refreshReq
  /\ dbUsers[refreshReq[1].id].refreshToken # refreshReq

\* C8: once a later login or refresh of a user has succeeded, the refresh
\* token issued to that user by the issuance before it is no longer
\* accepted, also when both were issued within one clock second.
C8_EarlierTokenRejected ==
  \A u \in DOMAIN dbUsers :
    prevRefresh[u] # None => ~Accepted(prevRefresh[u][1])

-----------------------------------------------------------------------------
(* Likes: src/App.tsx '/posts/:postId/like' *)

\* a like toggle that is answered with 200
Toggled(auth, postId) == ToggleLike(auth, postId, MaxLikeXp) /\ resp'.status = 200
Members(likes) == {likes[k] : k \in 1..Len(likes)}
\* the request of `auth` for postId is the caller's second call in a row on
\* the post of the last toggle (posts are counted from the end of the feed,
\* where they stay when newer posts are put in front)
SecondCall(auth, postId) ==
  /\ lastToggle # None
  /\ TokenUser(auth) = Some(lastToggle[1].userId)
  /\ Len(posts[1]) - FindPost(posts[1], postId) = lastToggle[1].fromEnd

\* C9: two toggleLike calls in a row by one user on one post leave the likes
\* of the post with the members and the count they had before the two calls;
\* for a user who was not among the likes the first call adds the user, the
\* second removes the user, and the list of likes is the same again.
C9_DoubleToggle ==
  [][\A a \in Auths, id \in 0..MaxMs :
       (Toggled(a, id) /\ SecondCall(a, id)) =>
         LET i == FindPost(posts[1], id)
             userId == lastToggle[1].userId
             before == lastToggle[1].before
         IN /\ Members(posts'[1][i].likes) = Members(before)
            /\ Len(posts'[1][i].likes) = Len(before)
            /\ userId \notin Members(before) =>
                 /\ userId \in Members(posts[1][i].likes)
                 /\ userId \notin Members(posts'[1][i].likes)
                 /\ posts'[1][i].likes = before]_vars

\* the second of two calls in a row took the caller off a post that another
\* user likes too
C9_Witness ==
  /\ resp.op = "toggleLike" /\ resp.status = 200
  /\ lastToggle # None
  /\ Len(lastToggle[1].before) = 2
  /\ lastToggle[1].before[2] = lastToggle[1].userId
  /\ lastToggle[1].before[1] # lastToggle[1].userId
  /\ resp.body[1].likes = <<lastToggle[1].before[1]>>

\* C10: a toggleLike that adds the caller to the likes raises the caller's
\* xp by 5 and changes no other user's record; one that removes the caller
\* changes no user's xp; so no xp decreases through a like.
C10_LikeXp ==
  [][\A a \in Auths, id \in 0..MaxMs :
       Toggled(a, id) =>
         LET userId == TokenUser(a)[1]
             likes == posts[1][FindPost(posts[1], id)].likes
         IN /\ userByName' = userByName
            /\ DOMAIN userById' = DOMAIN userById
            /\ \A other \in DOMAIN userById \ {userId} :
                 userById'[other] = userById[other]
            /\ userById'[userId].xp =
                 IF userId \in Members(likes) THEN userById[userId].xp
                 ELSE userById[userId].xp + 5
            /\ userId \in Members(posts'[1][FindPost(posts[1], id)].likes)
                 <=> userId \notin Members(likes)]_vars

\* a user took the like back from another user's post and keeps the 5 xp;
\* the author has the 10 xp of the post
C10_Witness ==
  /\ resp.op = "toggleLike" /\ resp.status = 200
  /\ lastToggle # None
  /\ lastToggle[1].userId \in Members(lastToggle[1].before)
  /\ lastToggle[1].userId \notin Members(resp.body[1].likes)
  /\ resp.body[1].userId._id # lastToggle[1].userId
  /\ userById[lastToggle[1].userId].xp = 5
  /\ userById[resp.body[1].userId._id].xp = 10

-----------------------------------------------------------------------------
(* Creating a post: src/App.tsx '/posts' POST *)

MaxContentLength == 500
\* a createPost request of an authenticated user
CreatePostBy(auth, content) == TokenUser(auth) # None /\ CreatePost(auth, content, MaxXp)

\* C11: createPost by an authenticated user succeeds exactly when the content
\* has 1 to 500 characters; on success the new post is the first of the feed,
\* the earlier posts follow in their order and the author's xp is 10 more; on
\* rejection the feed and the author's xp are unchanged.
C11_CreatePostContract ==
  [][\A a \in Auths, c \in PostContents :
       CreatePostBy(a, c) =>
         LET userId == TokenUser(a)[1] IN
         IF Len(c) >= 1 /\ Len(c) <= MaxContentLength
         THEN /\ resp'.status = 201
              /\ posts # None /\ posts' # None
              /\ posts'[1] = <<resp'.body[1]>> \o posts[1]
              /\ posts'[1][1].content = c
              /\ userById'[userId].xp = userById[userId].xp + 10
         ELSE /\ resp'.status # 201
              /\ posts' = posts
              /\ userById' = userById]_vars

-----------------------------------------------------------------------------
(* Registration: src/unnamed/part_000 app.post('/auth/register') and
   src/App.tsx '/register' *)

Defaults(user) ==
  /\ user.level = 1 /\ user.xp = 0 /\ user.coins = 100
  /\ user.streak = 0 /\ user.title = "Newbie"

\* C12: every registration that succeeds (201) creates a user with level 1,
\* xp 0, coins 100, streak 0 and title "Newbie", on the Express server and on
\* the mock server (both stored copies and the user of the response).
C12_RegisteredDefaults ==
  [][/\ \A u \in TokenUsers, p \in AuthPasswords :
          (AuthRegister(u, p) /\ resp'.status = 201) =>
            /\ u \notin DOMAIN dbUsers
            /\ u \in DOMAIN dbUsers'
            /\ dbUsers'[u].username = u
            /\ Defaults(dbUsers'[u])
     /\ \A u \in Usernames, p \in MockPasswords :
          (Register(u, p) /\ resp'.status = 201) =>
            /\ u \notin DOMAIN userByName
            /\ u \in DOMAIN userByName'
            /\ userByName'[u].username = u
            /\ Defaults(userByName'[u])
            /\ userByName'[u]._id \in DOMAIN userById'
            /\ Defaults(userById'[userByName'[u]._id])
            /\ Defaults(resp'.body[1].user)]_vars

\* a second user has just registered on the mock server, after the first
\* one gained xp, and a user is registered on the Express server
C12_Witness ==
  /\ resp.op = "register" /\ resp.status = 201
  /\ Defaults(resp.body[1].user)
  /\ \E v \in DOMAIN userByName :
       v # resp.body[1].user.username /\ userById[userByName[v]._id].xp = 10
  /\ \E u \in DOMAIN dbUsers : Defaults(dbUsers[u])

\* the challenges of one type created for a user
ChallengesOf(userId, type) ==
  {i \in 1..Len(dbChallenges) :
     dbChallenges[i].userId = userId /\ dbChallenges[i].type = type}

\* C13: a registration request (with a username and a password of 8 or more
\* characters) for a username that is registered when it comes in, or that
\* another request registers before it is answered, is answered 409 and
\* writes no record; no user has more than one set of default challenges.
C13_DuplicateRejected ==
  /\ \A r \in DOMAIN inflight :
       (inflight[r].op = "auth/register" /\ inflight[r].pc = "done"
        /\ inflight[r].dup)
         => inflight[r].status = 409 /\ ~inflight[r].wrote
  /\ \A u \in DOMAIN dbUsers :
       /\ Cardinality(ChallengesOf(dbUsers[u]._id, "daily")) <= 1
       /\ Cardinality(ChallengesOf(dbUsers[u]._id, "weekly")) <= 1

-----------------------------------------------------------------------------
(* Login: src/unnamed/part_000 app.post('/auth/login') and src/App.tsx
   '/login' *)

\* the status the claim gives a login request
LoginStatus(u, p) ==
  IF u = "" \/ p = "" THEN 400
  ELSE IF u \notin DOMAIN dbUsers THEN 404
  ELSE IF dbUsers[u].password # Hash(p) THEN 401
  ELSE 200
\* the mock server's user u registered with the password p
MockCredentials(u, p) ==
  u # "" /\ p # "" /\ u \in DOMAIN registeredWith /\ registeredWith[u] = p

\* C14: a login request yields tokens only for a registered username with
\* that user's password, on both servers; a request that fails issues no
\* token and leaves the user records (streak, lastActive, stored refresh
\* token) and the token store unchanged; on the Express server a request
\* without username or password is answered 400, one for an unknown
\* username 404 and one with a wrong password 401.
C14_LoginChecked ==
  [][/\ \A u \in StreakUsers, p \in AuthPasswords :
          AuthLogin(u, p) =>
            /\ resp'.status = LoginStatus(u, p)
            /\ resp'.status # 200 =>
                 resp'.body = None /\ dbUsers' = dbUsers
            /\ resp'.body # None => LoginStatus(u, p) = 200
     /\ \A u \in StreakUsers, p \in MockPasswords :
          Login(u, p) =>
            /\ resp'.body # None => MockCredentials(u, p)
            /\ resp'.status # 200 =>
                 /\ resp'.body = None
                 /\ tokenStore' = tokenStore
                 /\ userByName' = userByName /\ userById' = userById]_vars

-----------------------------------------------------------------------------
(* Token checks: src/unnamed/part_000 authenticateToken and the token check
   of the handlers of src/App.tsx *)

\* a request of the mock server with the authorization header `auth`
MockRequest(auth) ==
  \/ GetPosts(auth)
  \/ \E c \in Contents : CreatePost(auth, c, MaxLikeXp)
  \/ \E id \in 0..MaxMs : ToggleLike(auth, id, MaxLikeXp)
  \/ GetChallenges(auth)
  \/ LevelUp(auth)
\* a request of the Express server that goes through authenticateToken
BearerRequest(auth) == UsersMe(auth) \/ ListPosts(auth, None, None)

BadSignature(auth) == auth # None /\ auth[1].key # JWT_SECRET
Expired(auth) ==
  auth # None /\ auth[1].key = JWT_SECRET /\ now \div 1000 >= auth[1].exp
NoSuchUser(auth) ==
  /\ auth # None /\ ~BadSignature(auth) /\ ~Expired(auth)
  /\ auth[1].id \notin DOMAIN dbUsers
Rejected(auth) == BadSignature(auth) \/ Expired(auth) \/ NoSuchUser(auth)
Stores == <<userByName, userById, tokenStore, posts, mockChallenges,
            dbUsers, dbChallenges, dbPosts>>

\* C15 as stated: a bearer-protected operation is answered 401 without a
\* token and 403 with a token that is rejected (bad signature, expired,
\* naming no user; on the mock server, not in the token store), and changes
\* no user, post or challenge.
C15_RejectedIs403 ==
  [][/\ \A a \in Auths :
          (MockRequest(a) /\ TokenUser(a) = None) =>
            /\ resp'.status = IF a = None THEN 401 ELSE 403
            /\ Stores' = Stores
     /\ \A a \in Bearers :
          (BearerRequest(a) /\ (a = None \/ Rejected(a))) =>
            /\ resp'.status = IF a = None THEN 401 ELSE 403
            /\ Stores' = Stores]_vars

\* C15, amended: without a token the answer is 401; on the Express server
\* a token with a bad signature or naming no user is answered 403 and an
\* expired token 401; on the mock server a token that is not in the token
\* store is answered 401; no user, post or challenge changes and the
\* response has no body.
C15_Rejected ==
  [][/\ \A a \in Auths :
          (MockRequest(a) /\ TokenUser(a) = None) =>
            /\ resp'.status = 401 /\ resp'.body = None
            /\ Stores' = Stores
     /\ \A a \in Bearers :
          (BearerRequest(a) /\ (a = None \/ Rejected(a))) =>
            /\ resp'.status = IF a = None \/ Expired(a) THEN 401 ELSE 403
            /\ resp'.body = None
            /\ Stores' = Stores]_vars

\* the access token of a login has expired and is refused with 401, while
\* the mock server holds a user and a post
C15_Witness ==
  /\ resp.op = "users/me" /\ resp.status = 401
  /\ Expired(bearer)
  /\ bearer[1].id \in DOMAIN dbUsers
  /\ dbUsers[bearer[1].id].refreshToken # None
  /\ posts # None /\ Len(posts[1]) > 0

-----------------------------------------------------------------------------
(* Pages of the feed: src/unnamed/part_000 app.get('/posts') *)

\* the posts of the collection that are newer than post, or as new
Newer(post) == {i \in 1..Len(dbPosts) : dbPosts[i].createdAt > post.createdAt}
AsNew(post) == {i \in 1..Len(dbPosts) : dbPosts[i].createdAt >= post.createdAt}
Min(a, b) == IF a < b THEN a ELSE b
\* ceil(total / limit): the least n with n * limit >= total
Pages(total, limit) == CHOOSE n \in 0..total : n * limit >= total /\ (n = 0 \/ (n - 1) * limit < total)
\* the page of the example: 25 posts, one a millisecond, page 2 of limit 10
Feed25 == [i \in 1..25 |-> [_id |-> i, createdAt |-> i]]
Newest25 == [i \in 1..25 |-> 26 - i]

\* C16: for page >= 1 and limit >= 1 listPosts answers with the posts at the
\* newest-first positions (page-1)*limit+1 .. min(page*limit, total), none
\* past the end, with total the number of posts and pages = ceil(total/limit);
\* 25 posts, page 2, limit 10 give 10 posts (the 11th to the 20th) and 3 pages.
C16_ListPosts ==
  [][\A page, limit \in 1..MaxPageSize :
       (/\ resp'.op = "posts" /\ resp'.status = 200
        /\ resp'.body[1].page = page
        /\ ListPosts(bearer', Some(page), Some(limit))) =>
         LET body == resp'.body[1]
             total == Len(dbPosts)
             first == (page - 1) * limit + 1
             last == Min(page * limit, total)
         IN /\ body.total = total
            /\ body.pages = Pages(total, limit)
            /\ Len(body.posts) = IF last < first THEN 0 ELSE last - first + 1
            /\ \A k \in 1..Len(body.posts) :
                 /\ \E i \in 1..Len(dbPosts) : dbPosts[i]._id = body.posts[k]._id
                 /\ Cardinality(Newer(body.posts[k])) < first + k
                 /\ Cardinality(AsNew(body.posts[k])) >= first + k - 1
                 /\ \A j \in 1..Len(body.posts) :
                      j # k => body.posts[j]._id # body.posts[k]._id
            /\ Len(Page(Feed25, Newest25, (2 - 1) * 10, 10)) = 10
            /\ \A k \in 1..10 :
                 Page(Feed25, Newest25, (2 - 1) * 10, 10)[k]._id = 16 - k
            /\ Ceil(25, 10) = 3]_vars

\* the second page of one post of a feed of two: the older post
C16_Witness ==
  /\ resp.op = "posts" /\ resp.status = 200
  /\ Len(dbPosts) = 2
  /\ resp.body[1].page = 2 /\ resp.body[1].pages = 2
  /\ resp.body[1].total = 2
  /\ Len(resp.body[1].posts) = 1
  /\ \E i \in 1..2 : dbPosts[i].createdAt > resp.body[1].posts[1].createdAt

-----------------------------------------------------------------------------
(* The two writes of a like: src/App.tsx '/posts/:postId/like' *)

\* the likes stored for the post that request r is about
StoredLikes(r) ==
  posts[1][FindPost(posts[1], inflight[r].postId[1])].likes
Count(likes, userId) == Cardinality({k \in 1..Len(likes) : likes[k] = userId})
\* the handler of r stopped after it had credited the xp, and the user of r
\* is not among the stored likes of the post
CreditedNotLiked(r) ==
  /\ r \in DOMAIN inflight
  /\ inflight[r].op = "toggleLike" /\ inflight[r].pc = "stopped"
  /\ inflight[r].credited
  /\ inflight[r].userId[1] \notin Members(StoredLikes(r))

\* C17: the adding branch writes the user record (+5 xp) and the posts in
\* two writes: the first leaves the stored posts as they are, a handler that
\* stops takes nothing back, and a like of the same user and post that comes
\* after a handler stopped between the two writes goes down the adding
\* branch again: it credits another 5 xp and records the user once.
C17_TwoWrites ==
  [][\A r \in Requests :
       /\ LikeWriteUser(r, MaxXp) =>
            /\ posts' = posts
            /\ userById'[inflight[r].userId[1]].xp = inflight[r].luser[1].xp + 5
       /\ Stop(r) => posts' = posts /\ userById' = userById
       /\ \A a \in Auths, id \in 0..MaxMs :
            (/\ LikeStart(r, a, id)
             /\ \E q \in Requests :
                  /\ CreditedNotLiked(q)
                  /\ TokenUser(a) = inflight[q].userId
                  /\ Some(id) = inflight[q].postId)
              => inflight'[r].adding /\ inflight'[r].pc = "readUser"
       /\ (LikeWritePosts(r) /\ inflight[r].adding) =>
            /\ userById' = userById
            /\ inflight[r].credited
            /\ Count(posts'[1][inflight[r].index].likes, inflight[r].userId[1]) = 1]_vars

\* a like that stopped after its credit and the like repeated after it: the
\* user has 10 xp from likes and is once among the likes of the post
C17_Witness ==
  \E q, r \in DOMAIN inflight :
    /\ inflight[q].op = "toggleLike" /\ inflight[q].pc = "stopped"
    /\ inflight[q].credited
    /\ inflight[r].op = "toggleLike" /\ inflight[r].pc = "done"
    /\ inflight[r].adding /\ inflight[r].status = 200
    /\ inflight[r].userId = inflight[q].userId
    /\ inflight[r].postId = inflight[q].postId
    /\ inflight[r].luser[1].xp = inflight[q].luser[1].xp + 5
    /\ userById[inflight[r].userId[1]].xp = inflight[q].luser[1].xp + 10
    /\ StoredLikes(r) = <<inflight[r].userId[1]>>

-----------------------------------------------------------------------------
(* Requests handled at the same time: src/App.tsx '/posts' POST,           *)
(* '/posts/:postId/like', '/level-up'                                      *)

AllAnswered == \A r \in DOMAIN inflight : inflight[r].pc = "done"

\* C18: whatever the interleaving of the reads and writes of createPost,
\* toggleLike and level-up requests, once every request is answered each
\* post answered with 201 is in the feed, each like answered as added is in
\* the likes of its post, and the xp of each user is the initial xp plus 10
\* per post and 5 per added like answered, minus the thresholds of the
\* level-ups answered.
C18_NoLostUpdate ==
  AllAnswered =>
    /\ \A p \in acked.posts :
         \E i \in 1..Len(posts[1]) : posts[1][i]._id = p._id
    /\ \A l \in acked.likes :
         \E i \in 1..Len(posts[1]) :
           posts[1][i]._id = l[2] /\ l[1] \in Members(posts[1][i].likes)
    /\ \A u \in DOMAIN acked.xp : userById[u].xp = acked.xp[u]

-----------------------------------------------------------------------------
(* The user a login returns: src/App.tsx '/login', '/register'             *)

\* C19: the user object that a successful login returns carries the xp,
\* level, coins and inventory last stored for that user by createPost,
\* toggleLike and level-up.
C19_LoginReturnsCurrent ==
  (resp.op = "login" /\ resp.status = 200) =>
    LET user == resp.body[1].user
        stored == userById[user._id]
    IN /\ user.xp = stored.xp
       /\ user.level = stored.level
       /\ user.coins = stored.coins
       /\ user.inventory = stored.inventory

=============================================================================
